---- MODULE Spec2Model ----
(***************************************************************************)
(* Model of src/app.js: the cheerio based extractor basicScrape, the       *)
(* per-URL resolver scrapeEmails (static fetch, then a headless-browser    *)
(* render when the static body yields nothing) and the batch driver (the   *)
(* async main function: read the sheet, scrape every record, write the     *)
(* augmented CSV).  Spec and FairSpec are the run of main; ScrapeSpec is   *)
(* one call of basicScrape on any document of a bounded set.               *)
(*                                                                         *)
(* A JavaScript string is a sequence of one-character strings; the empty   *)
(* string is << >>.  Indices into strings are 0-based as in JavaScript:    *)
(* index p names the character str[p + 1].                                 *)
(***************************************************************************)
EXTENDS Integers, Sequences, FiniteSets, TLC

(***************************************************************************)
(* Bounds of the model.                                                    *)
(***************************************************************************)
\* the records of a sheet
MaxRecords == 2

\* the elements of a document given to basicScrape on its own
MaxElems == 2

(***************************************************************************)
(* Characters and character classes of the two patterns (lines 26, 57).    *)
(***************************************************************************)
LowerSeq ==
  << "a","b","c","d","e","f","g","h","i","j","k","l","m",
     "n","o","p","q","r","s","t","u","v","w","x","y","z" >>

UpperSeq ==
  << "A","B","C","D","E","F","G","H","I","J","K","L","M",
     "N","O","P","Q","R","S","T","U","V","W","X","Y","Z" >>

DigitSeq == << "0","1","2","3","4","5","6","7","8","9" >>

Range(s) == { s[k] : k \in 1..Len(s) }

Letter == Range(LowerSeq) \cup Range(UpperSeq)

Digit == Range(DigitSeq)

\* \w of the pattern language: what \b is defined by
WordCh == Letter \cup Digit \cup {"_"}

\* [A-Za-z0-9._%+-]
LocalCh == Letter \cup Digit \cup {".", "_", "%", "+", "-"}

\* [A-Za-z0-9.-]
DomainCh == Letter \cup Digit \cup {".", "-"}

WhiteSpace == {" ", "\t", "\n"}

IndexOf(seq, x) == CHOOSE k \in 1..Len(seq) : seq[k] = x

(***************************************************************************)
(* String methods used by the program.                                     *)
(***************************************************************************)
\* the match kept in the case it was written in
toLowerCaseSkipped(str) == str

\* String.prototype.toLowerCase (line 64)
toLowerCase(str) ==
  [ k \in 1..Len(str) |->
      IF str[k] \in Range(UpperSeq) THEN LowerSeq[IndexOf(UpperSeq, str[k])]
      ELSE str[k] ]

StartsWith(str, pre) ==
  /\ Len(str) >= Len(pre)
  /\ SubSeq(str, 1, Len(pre)) = pre

\* 0-based index of the first ch in str, or -1
FirstIndexOf(str, ch) ==
  IF \E k \in 1..Len(str) : str[k] = ch
  THEN (CHOOSE k \in 1..Len(str) :
          /\ str[k] = ch
          /\ \A j \in 1..(k - 1) : str[j] # ch) - 1
  ELSE -1

\* 0-based index of the last ch in str, or -1
LastIndexOf(str, ch) ==
  IF \E k \in 1..Len(str) : str[k] = ch
  THEN (CHOOSE k \in 1..Len(str) :
          /\ str[k] = ch
          /\ \A j \in (k + 1)..Len(str) : str[j] # ch) - 1
  ELSE -1

\* str.split(ch)[0]
SplitFirst(str, ch) ==
  IF FirstIndexOf(str, ch) = -1 THEN str
  ELSE SubSeq(str, 1, FirstIndexOf(str, ch))

\* str.split(ch).pop()
SplitLast(str, ch) ==
  IF LastIndexOf(str, ch) = -1 THEN str
  ELSE SubSeq(str, LastIndexOf(str, ch) + 2, Len(str))

\* String.prototype.trim
trim(str) ==
  IF \A k \in 1..Len(str) : str[k] \in WhiteSpace THEN << >>
  ELSE LET first == CHOOSE k \in 1..Len(str) :
                      /\ str[k] \notin WhiteSpace
                      /\ \A j \in 1..(k - 1) : str[j] \in WhiteSpace
           last  == CHOOSE k \in 1..Len(str) :
                      /\ str[k] \notin WhiteSpace
                      /\ \A j \in (k + 1)..Len(str) : str[j] \in WhiteSpace
       IN  SubSeq(str, first, last)

RECURSIVE JoinFrom(_, _, _)
\* the strings of list from the k-th on, with sep between them
JoinFrom(list, sep, k) ==
  IF k > Len(list) THEN << >>
  ELSE IF k = Len(list) THEN list[k]
  ELSE list[k] \o sep \o JoinFrom(list, sep, k + 1)

\* Array.prototype.join: the strings of list with sep between them (the list
\* is bound once, as a value)
Join(list, sep) == CHOOSE r \in { JoinFrom(l, sep, 1) : l \in {list} } : TRUE

\* Set.prototype.add on a Set kept in insertion order
SetAdd(set, x) == IF x \in Range(set) THEN set ELSE Append(set, x)

(***************************************************************************)
(* The email pattern, /\b[A-Za-z0-9._%+-]+@[A-Za-z0-9.-]+\.[A-Za-z]{2,}\b/ *)
(* (looseRe with the g flag on line 26, strictRe without it on line 57),   *)
(* evaluated as the backtracking matcher evaluates it.                     *)
(***************************************************************************)
\* \b at 0-based index p: exactly one of the characters around p is a \w
WordBoundary(str, p) ==
  LET before == p > 0 /\ str[p] \in WordCh
      after  == p < Len(str) /\ str[p + 1] \in WordCh
  IN  before # after

\* end (exclusive) of the longest run of cls characters that starts at index from
RunEnd(str, from, cls) ==
  CHOOSE q \in from..Len(str) :
    /\ \A k \in (from + 1)..q : str[k] \in cls
    /\ q = Len(str) \/ str[q + 1] \notin cls

\* The tail \.[A-Za-z]{2,}\b with its letters running up to index t: the
\* index after the match, or -1.  The greedy letters can give none back: \b
\* does not hold between two letters.
TldEndAt(str, k, t) == IF t >= k + 3 /\ WordBoundary(str, t) THEN t ELSE -1

\* The tail \.[A-Za-z]{2,}\b tried with the dot at index k
TldEnd(str, k) ==
  IF k >= 0 /\ k < Len(str) /\ str[k + 1] = "."
  THEN TldEndAt(str, k, RunEnd(str, k + 1, Letter))
  ELSE -1

\* the greatest of a set of indices, or -1 when there is none
MaxOf(ks) == IF ks = {} THEN -1 ELSE CHOOSE k \in ks : \A j \in ks : j <= k

\* the least of a set of indices, or -1 when there is none
MinOf(ks) == IF ks = {} THEN -1 ELSE CHOOSE k \in ks : \A j \in ks : k <= j

\* [A-Za-z0-9.-]+ from index d0, then the tail: the greedy domain gives
\* characters back until the tail matches
DomainEnd(str, d0, dEnd) ==
  TldEnd(str, MaxOf({ k \in (d0 + 1)..dEnd : TldEnd(str, k) # -1 }))

\* "@" is not a local-part character: the local part is the whole run up to q
LocalEnd(str, s, q) ==
  IF q = s \/ q >= Len(str) \/ str[q + 1] # "@" THEN -1
  ELSE DomainEnd(str, q + 1, RunEnd(str, q + 1, DomainCh))

\* The pattern tried at start index s: the index after the match, or -1
MatchEnd(str, s) ==
  IF s < 0 \/ s >= Len(str) \/ ~WordBoundary(str, s) THEN -1
  ELSE LocalEnd(str, s, RunEnd(str, s, LocalCh))

\* the rightmost start index >= from at which the pattern matches, or -1
LastMatch(str, from) ==
  MaxOf({ s \in from..Len(str) : MatchEnd(str, s) # -1 })

\* The leftmost start index >= from at which the pattern matches, or -1
FirstMatch(str, from) ==
  MinOf({ s \in from..Len(str) : MatchEnd(str, s) # -1 })

\* the result of a search that found the match at index s (none: s = -1)
MatchResult(str, s, e) ==
  IF s = -1
  THEN [isNull |-> TRUE, match |-> << >>, lastIndex |-> 0]
  ELSE [isNull |-> FALSE, match |-> SubSeq(str, s + 1, e), lastIndex |-> e]

MatchAt(str, s) == MatchResult(str, s, MatchEnd(str, s))

\* RegExp.prototype.exec of a global pattern whose lastIndex is lastIndex:
\* the match (or null) and the lastIndex it leaves
exec(str, lastIndex) ==
  MatchAt(str, IF lastIndex > Len(str) THEN -1 ELSE FirstMatch(str, lastIndex))

\* String.prototype.match of the pattern without the g flag: found[0] or null
match(str) == MatchAt(str, FirstMatch(str, 0))

\* if in the place of while: the first match is added and the pattern is left
\* with the lastIndex of that match
ScanTurnOnce(str, rawSet, m) ==
  [rawSet |-> IF m.isNull THEN rawSet ELSE SetAdd(rawSet, m.match),
   lastIndex |-> m.lastIndex]

RECURSIVE ScanLoop(_, _, _)
\* one turn of the loop, m being what exec returned
ScanTurn(str, rawSet, m) ==
  IF m.isNull THEN [rawSet |-> rawSet, lastIndex |-> m.lastIndex]
  ELSE ScanLoop(str, m.lastIndex, SetAdd(rawSet, m.match))

\* while ((m = looseRe.exec(str)) !== null) rawSet.add(m[0]);  (lines 41-43
\* and 49-51): the set and the lastIndex the loop leaves
ScanLoop(str, lastIndex, rawSet) == ScanTurn(str, rawSet, exec(str, lastIndex))

(***************************************************************************)
(* decodeURIComponent (line 61).  Escapes of the ASCII range are decoded;  *)
(* an escape that is cut short, is not hexadecimal, or is an octet from    *)
(* 0x80 up with no well-formed sequence around it, makes the call throw.   *)
(***************************************************************************)
HexSeq == << "0","1","2","3","4","5","6","7","8","9","A","B","C","D","E","F" >>

HexCh == Range(HexSeq) \cup {"a","b","c","d","e","f"}

HexVal(c) ==
  IF c \in Range(HexSeq) THEN IndexOf(HexSeq, c) - 1
  ELSE IndexOf(HexSeq, UpperSeq[IndexOf(LowerSeq, c)]) - 1

\* the characters of codes 32..126; the grave accent (code 96), which the
\* module's lexer does not take in a string, is written "\f"
Printable ==
  << " ","!","\"","#","$","%","&","'","(",")","*","+",",","-",".","/" >>
  \o DigitSeq \o << ":",";","<","=",">","?","@" >> \o UpperSeq
  \o << "[","\\","]","^","_","\f" >> \o LowerSeq \o << "{","|","}","~" >>

\* code 9 and code 10 are themselves; any other control code is "\r"
FromCharCode(code) ==
  IF code >= 32 /\ code <= 126 THEN Printable[code - 31]
  ELSE IF code = 9 THEN "\t"
  ELSE IF code = 10 THEN "\n"
  ELSE "\r"

\* whether the escape at 1-based position k of str is well formed
EscapeOk(str, k) ==
  /\ k + 2 <= Len(str)
  /\ str[k + 1] \in HexCh
  /\ str[k + 2] \in HexCh
  /\ HexVal(str[k + 1]) < 8

DecodeThrows(str) == \E k \in 1..Len(str) : str[k] = "%" /\ ~EscapeOk(str, k)

RECURSIVE DecodeFrom(_, _)
DecodeFrom(str, k) ==
  IF k > Len(str) THEN << >>
  ELSE IF str[k] = "%"
  THEN << FromCharCode(16 * HexVal(str[k + 1]) + HexVal(str[k + 2])) >>
       \o DecodeFrom(str, k + 3)
  ELSE << str[k] >> \o DecodeFrom(str, k + 1)

\* try { raw = decodeURIComponent(raw); } catch {}
TryDecode(raw) == IF DecodeThrows(raw) THEN raw ELSE DecodeFrom(raw, 1)

(***************************************************************************)
(* basicScrape (lines 21-70).  The markup is taken as cheerio parses it: a *)
(* document is the sequence of its elements in document order, each with   *)
(* its tag, its attributes in order (name and value), the text directly in *)
(* it, and whether it lies in the body.                                    *)
(***************************************************************************)
mailtoPrefix == << "m","a","i","l","t","o",":" >>

\* the elements left by $('script, style').remove()  (lines 22-23)
load(html) == SelectSeq(html, LAMBDA el : el.tag \notin {"script", "style"})

HasAttr(el, name) == \E k \in 1..Len(el.attribs) : el.attribs[k].name = name

\* $(el).attr(name)
attr(el, name) ==
  el.attribs[CHOOSE k \in 1..Len(el.attribs) : el.attribs[k].name = name].value

\* the selector a[href^="mailto:"]
IsMailtoLink(el) ==
  /\ el.tag = "a"
  /\ HasAttr(el, "href")
  /\ StartsWith(attr(el, "href"), mailtoPrefix)

\* .replace(/^mailto:/, '').split('?')[0].trim()  (lines 31-34)
MailtoAddress(href) ==
  trim(SplitFirst(SubSeq(href, Len(mailtoPrefix) + 1, Len(href)), "?"))

RECURSIVE MailtoLinks(_, _)
\* lines 29-36
MailtoLinks(els, rawSet) ==
  IF Len(els) = 0 THEN rawSet
  ELSE MailtoLinks(Tail(els),
         IF IsMailtoLink(els[1])
         THEN SetAdd(rawSet, MailtoAddress(attr(els[1], "href")))
         ELSE rawSet)

RECURSIVE BodyText(_)
\* $('body').text()  (line 39)
BodyText(els) ==
  IF Len(els) = 0 THEN << >>
  ELSE (IF els[1].inBody THEN els[1].text ELSE << >>) \o BodyText(Tail(els))

RECURSIVE AttribValues(_)
\* the values visited by $('*').each(... Object.values(el.attribs) ...)
AttribValues(els) ==
  IF Len(els) = 0 THEN << >>
  ELSE [ k \in 1..Len(els[1].attribs) |-> els[1].attribs[k].value ]
       \o AttribValues(Tail(els))

RECURSIVE ScanValues(_, _, _)
RECURSIVE ScanValuesNext(_, _)
\* lines 46-53: every value scanned with the one looseRe, whose lastIndex
\* is carried from one scan to the next
ScanValues(vals, lastIndex, rawSet) ==
  IF Len(vals) = 0 THEN [rawSet |-> rawSet, lastIndex |-> lastIndex]
  ELSE ScanValuesNext(Tail(vals), ScanLoop(vals[1], lastIndex, rawSet))

ScanValuesNext(vals, r) == ScanValues(vals, r.lastIndex, r.rawSet)

\* lines 39-53, els being the elements and rawSet the mailto addresses
ScanDocument(els, rawSet) ==
  ScanValuesNext(AttribValues(els), ScanLoop(BodyText(els), 0, rawSet))

\* lines 29-53
Harvest(els) == ScanDocument(els, MailtoLinks(els, << >>))

\* the raw candidates: lines 22-53
RawCandidates(html) == Harvest(load(html)).rawSet

imageExts ==
  { <<"p","n","g">>, <<"j","p","g">>, <<"j","p","e","g">>, <<"g","i","f">>,
    <<"s","v","g">>, <<"w","e","b","p">>, <<"b","m","p">>,
    <<"t","i","f","f">> }

\* lines 64-66, email being the lower-cased match
KeepEmail(cleanSet, email) ==
  IF SplitLast(email, ".") \in imageExts THEN cleanSet
  ELSE SetAdd(cleanSet, email)

\* the extension looked up before the match is lower-cased
KeepFoundCaseSensitive(cleanSet, found) ==
  IF found.isNull THEN cleanSet
  ELSE IF SplitLast(found.match, ".") \in imageExts THEN cleanSet
  ELSE SetAdd(cleanSet, toLowerCase(found.match))

\* lines 63-66, found being what raw.match(strictRe) returned
KeepFound(cleanSet, found) ==
  IF found.isNull THEN cleanSet
  ELSE KeepEmail(cleanSet, toLowerCase(found.match))

RECURSIVE Sanitize(_, _)
\* lines 60-67
Sanitize(rawSet, cleanSet) ==
  IF Len(rawSet) = 0 THEN cleanSet
  ELSE Sanitize(Tail(rawSet), KeepFound(cleanSet, match(TryDecode(rawSet[1]))))

\* the array returned on line 69
basicScrape(html) == Sanitize(RawCandidates(html), << >>)

(***************************************************************************)
(* Records.  A record is a JavaScript object: its own keys with their      *)
(* values, in insertion order.  Object.keys lists the keys that are array  *)
(* indices first, in ascending numeric order, then the others in insertion *)
(* order.                                                                  *)
(***************************************************************************)
website == << "w","e","b","s","i","t","e" >>

emailsKey == << "e","m","a","i","l","s" >>

HasKey(rec, key) == \E k \in 1..Len(rec) : rec[k].key = key

\* rec[key] of a record that has the key
Get(rec, key) == rec[CHOOSE k \in 1..Len(rec) : rec[k].key = key].value

\* rec[key] ?? ''
GetOrEmpty(rec, key) == IF HasKey(rec, key) THEN Get(rec, key) ELSE << >>

\* rec[key] = value
Put(rec, key, value) ==
  IF HasKey(rec, key)
  THEN [ k \in 1..Len(rec) |->
           IF rec[k].key = key THEN [key |-> key, value |-> value] ELSE rec[k] ]
  ELSE Append(rec, [key |-> key, value |-> value])

\* a canonical array index: digits only, no leading zero
IsArrayIndex(key) ==
  /\ Len(key) > 0
  /\ \A k \in 1..Len(key) : key[k] \in Digit
  /\ Len(key) > 1 => key[1] # "0"

RECURSIVE NumVal(_)
NumVal(key) ==
  IF Len(key) = 0 THEN 0
  ELSE 10 * NumVal(SubSeq(key, 1, Len(key) - 1))
       + (IndexOf(DigitSeq, key[Len(key)]) - 1)

RECURSIVE SortedIndexKeys(_)
\* the keys of the set ks in ascending numeric order
SortedIndexKeys(ks) ==
  IF ks = {} THEN << >>
  ELSE LET least == CHOOSE a \in ks : \A b \in ks : NumVal(a) <= NumVal(b)
       IN  << least >> \o SortedIndexKeys(ks \ {least})

\* Object.keys(rec)  (line 152)
ObjectKeys(rec) ==
  LET keys == [ k \in 1..Len(rec) |-> rec[k].key ]
  IN  SortedIndexKeys({ key \in Range(keys) : IsArrayIndex(key) })
      \o SelectSeq(keys, LAMBDA key : ~IsArrayIndex(key))

(***************************************************************************)
(* JSON.stringify of an array of strings (line 142).                       *)
(***************************************************************************)
RECURSIVE JsonEscape(_)
JsonEscape(str) ==
  IF Len(str) = 0 THEN << >>
  ELSE (IF str[1] \in {"\"", "\\"} THEN << "\\", str[1] >>
        ELSE IF str[1] = "\n" THEN << "\\", "n" >>
        ELSE IF str[1] = "\t" THEN << "\\", "t" >>
        ELSE << str[1] >>)
       \o JsonEscape(Tail(str))

JsonString(str) == << "\"" >> \o JsonEscape(str) \o << "\"" >>

JSONstringify(list) ==
  << "[" >>
  \o Join([ k \in 1..Len(list) |-> JsonString(list[k]) ], << "," >>)
  \o << "]" >>

(***************************************************************************)
(* The output table (lines 152-164).                                       *)
(***************************************************************************)
RECURSIVE DoubleQuotes(_)
\* String(v).replace(/"/g, '""')
DoubleQuotes(str) ==
  IF Len(str) = 0 THEN << >>
  ELSE (IF str[1] = "\"" THEN << "\"", "\"" >> ELSE << str[1] >>)
       \o DoubleQuotes(Tail(str))

\* lines 154-157
escapeCell(v) == << "\"" >> \o DoubleQuotes(v) \o << "\"" >>

\* line 152
originalHeaders(recs) == ObjectKeys(recs[1])

\* line 153
finalHeaders(recs) == originalHeaders(recs) \o << emailsKey >>

\* line 160: the header row
HeaderLine(recs) == Join(finalHeaders(recs), << "," >>)

\* line 162: the row of rec under the headers hs
RowOf(hs, rec) ==
  Join([ k \in 1..Len(hs) |-> escapeCell(GetOrEmpty(rec, hs[k])) ], << "," >>)

\* lines 161-163: the row of one record (the headers are bound once, as a
\* value)
RecordLine(recs, rec) ==
  CHOOSE line \in { RowOf(hs, rec) : hs \in {finalHeaders(recs)} } : TRUE

\* lines 159-164
lines(recs) ==
  << HeaderLine(recs) >>
  \o [ k \in 1..Len(recs) |-> RecordLine(recs, recs[k]) ]

(***************************************************************************)
(* The environment: the sheets the table source can return, the bodies a   *)
(* site can serve, the titles of the sheet page.                           *)
(***************************************************************************)
\* lines 16-18
BROWSER_UA == "Mozilla/5.0 (Windows NT 10.0; Win64; x64) AppleWebKit/537.36 (KHTML, like Gecko) Chrome/114.0.0.0 Safari/537.36"

CSV_URL == << "c","s","v" >>

SHEET_EDIT_URL == << "e","d","i","t" >>

nameKey == << "n","a","m","e" >>

indexKey == << "7" >>

\* the header rows of the sheets of the model
Headers ==
  { << website >>, << nameKey, website >>, << website, indexKey >>,
    << nameKey >>, << website, emailsKey >> }

\* the (trimmed) values a cell of column h takes
CellValues(h) ==
  IF h = website THEN { << >>, << "u" >> }
  ELSE IF h = nameKey THEN { << "x", "\"" >> }
  ELSE { << "k" >> }

AllCellValues == UNION { CellValues(h) : h \in UNION { Range(hs) : hs \in Headers } }

\* the records parse can build under header row hs: one key per column, in
\* column order
RowsOf(hs) ==
  { [ k \in 1..Len(hs) |-> [key |-> hs[k], value |-> r[k]] ] :
      r \in { f \in [1..Len(hs) -> AllCellValues] :
                \A k \in 1..Len(hs) : f[k] \in CellValues(hs[k]) } }

\* what parse(rawCsv, {columns: true, skip_empty_lines: true, trim: true})
\* can return (line 110): up to MaxRecords records under one header row
Sheets ==
  UNION { UNION { [1..n -> RowsOf(hs)] : n \in 0..MaxRecords } : hs \in Headers }

Elem(tag, attribs, text) ==
  [tag |-> tag, attribs |-> attribs, text |-> text, inBody |-> TRUE]

\* <p>hi</p>
DocNone == << Elem("p", << >>, << "h","i" >>) >>

\* <a href="mailto:a@b.co?s">m</a>
DocMailto ==
  << Elem("a",
          << [name |-> "href",
              value |-> mailtoPrefix \o << "a","@","b",".","c","o","?","s" >>] >>,
          << "m" >>) >>

\* <img src="p@2x.png">
DocImage ==
  << Elem("img",
          << [name |-> "src",
              value |-> << "p","@","2","x",".","p","n","g" >>] >>,
          << >>) >>

\* <p>A@b.co c@d.io</p><script>z@q.eu</script>
DocTwo ==
  << Elem("p", << >>,
          << "A","@","b",".","c","o"," ","c","@","d",".","i","o" >>),
     Elem("script", << >>, << "z","@","q",".","e","u" >>) >>

\* the bodies res.text() (line 83) and page.content() (line 93) can give
Docs == { DocNone, DocMailto, DocImage, DocTwo }

\* where a redirect leads
RedirectUrl == << "r" >>

googleSuffix ==
  << " ","-"," ","G","o","o","g","l","e"," ","S","h","e","e","t","s" >>

\* the <title> texts of the sheet page (line 120)
Titles == { << "S" >>, << "S" >> \o googleSuffix }

\* titleMatch[1].replace(/\s*-\s*Google Sheets$/, '') + '.csv'  (line 123),
\* for the titles of the model
TitleFilename(title) ==
  (IF Len(title) >= Len(googleSuffix)
      /\ SubSeq(title, Len(title) - Len(googleSuffix) + 1, Len(title))
           = googleSuffix
   THEN SubSeq(title, 1, Len(title) - Len(googleSuffix))
   ELSE title) \o << ".","c","s","v" >>

\* line 117
DefaultFilename == << "o","u","t","p","u","t",".","c","s","v" >>

(***************************************************************************)
(* State.                                                                  *)
(***************************************************************************)
VARIABLES
  pc,           \* where the main function (lines 106-168) stands
  sheet,        \* the records as parse returned them (line 110)
  records,      \* the parsed records (line 110), mutated in place
  i,            \* the record the for-of loop of line 133 is at (1-based)
  outFilename,  \* line 117
  browser,      \* the puppeteer browser: "none", "launched" or "closed"
  openPages,    \* the number of pages open in the browser
  outFile,      \* the files written: a sequence of [name, content]
  spc,          \* where the running call of scrapeEmails stands
  url,          \* scrapeEmails: its argument
  res,          \* scrapeEmails: the response of line 74
  finalUrl,     \* scrapeEmails: line 78
  emails,       \* scrapeEmails: line 84
  page,         \* scrapeEmails: line 88: "undefined", "open" or "closed"
  calls         \* the calls made on the outside world (network, browser,
                \* console.error and console.warn, file system) since the
                \* current stage of main began: before the loop, one
                \* iteration of the loop, after the loop

VARIABLES
  markup,       \* basicScrape: its argument html (line 21)
  bpc,          \* where the observed run of basicScrape stands
  rawSet,       \* basicScrape: line 25, in insertion order
  lastIndex,    \* basicScrape: looseRe.lastIndex (line 26)
  vals,         \* basicScrape: the attribute values lines 46-47 have yet to visit
  ri,           \* basicScrape: the place in rawSet the loop of line 60 is at
  raw,          \* basicScrape: the candidate of line 60, decoded on line 61
  found,        \* basicScrape: line 62
  cleanSet      \* basicScrape: line 58, in insertion order

mainVars == << pc, sheet, records, i, outFilename, browser, outFile >>

frameVars == << spc, url, res, finalUrl, emails, page >>

basicScrapeVars ==
  << markup, bpc, rawSet, lastIndex, vals, ri, raw, found, cleanSet >>

vars == << pc, sheet, records, i, outFilename, browser, openPages, outFile,
           spc, url, res, finalUrl, emails, page, calls, basicScrapeVars >>

NoRes == [url |-> << >>, status |-> 0]

\* one call: the operation, the URL it is given, the body it resolves with,
\* the user agent it carries, whether it succeeds
Call(op, u, body, ua, ok) ==
  [op |-> op, url |-> u, body |-> body, ua |-> ua, ok |-> ok]

\* the state of main and of scrapeEmails before line 108
MainInit ==
  /\ pc = "fetchCsv"
  /\ sheet = << >>
  /\ records = << >>
  /\ i = 1
  /\ outFilename = DefaultFilename
  /\ browser = "none"
  /\ openPages = 0
  /\ outFile = << >>
  /\ spc = "idle"
  /\ url = << >>
  /\ res = NoRes
  /\ finalUrl = << >>
  /\ emails = << >>
  /\ page = "undefined"
  /\ calls = << >>

\* what match and exec give when the pattern is not found
Null == [isNull |-> TRUE, match |-> << >>, lastIndex |-> 0]

\* no run of basicScrape is under observation
ScrapeIdle ==
  /\ markup = << >>
  /\ bpc = "idle"
  /\ rawSet = << >>
  /\ lastIndex = 0
  /\ vals = << >>
  /\ ri = 1
  /\ raw = << >>
  /\ found = Null
  /\ cleanSet = << >>

Init == MainInit /\ ScrapeIdle

(***************************************************************************)
(* main, part A (lines 108-114).                                           *)
(***************************************************************************)
\* line 108: the request for the CSV settles; a rejection ends main
FetchCsv ==
  /\ pc = "fetchCsv"
  /\ \E ok \in BOOLEAN :
       /\ calls' = Append(calls, Call("fetch", CSV_URL, << >>, BROWSER_UA, ok))
       /\ pc' = IF ok THEN "readCsv" ELSE "crashed"
  /\ UNCHANGED << sheet, records, i, outFilename, browser, openPages, outFile,
                  frameVars >>
  /\ UNCHANGED basicScrapeVars

\* the test written !records: an array, even an empty one, is truthy
NoRecordsFalsy(recs) == FALSE

\* line 111
NoRecords(recs) == Len(recs) = 0

\* lines 109-114: the body is read and parsed; no record ends main with a
\* message on console.error
ReadCsv ==
  /\ pc = "readCsv"
  /\ \/ /\ calls' = Append(calls, Call("text", << >>, << >>, "", FALSE))
        /\ pc' = "crashed"
        /\ UNCHANGED << sheet, records >>
     \/ \E parsed \in Sheets :
          /\ sheet' = parsed
          /\ records' = parsed
          /\ IF NoRecords(parsed)
             THEN /\ calls' = calls
                        \o << Call("text", << >>, << >>, "", TRUE),
                              Call("console.error", << >>, << >>, "", TRUE) >>
                  /\ pc' = "noData"
             ELSE /\ calls' = Append(calls, Call("text", << >>, << >>, "", TRUE))
                  /\ pc' = "title"
  /\ UNCHANGED << i, outFilename, browser, openPages, outFile, frameVars >>
  /\ UNCHANGED basicScrapeVars

(***************************************************************************)
(* main, parts B and C (lines 117-130).                                    *)
(***************************************************************************)
\* lines 117-127: the sheet page is fetched for its title; a failure of the
\* request is caught and keeps the default file name
FetchTitle ==
  /\ pc = "title"
  /\ \/ /\ calls' = calls
              \o << Call("fetch", SHEET_EDIT_URL, << >>, BROWSER_UA, FALSE),
                    Call("console.warn", << >>, << >>, "", TRUE) >>
        /\ UNCHANGED outFilename
     \/ /\ calls' = Append(calls,
                      Call("fetch", SHEET_EDIT_URL, << >>, BROWSER_UA, TRUE))
        /\ \/ UNCHANGED outFilename
           \/ \E title \in Titles : outFilename' = TitleFilename(title)
  /\ pc' = "launch"
  /\ UNCHANGED << sheet, records, i, browser, openPages, outFile, frameVars >>
  /\ UNCHANGED basicScrapeVars

\* line 130
Launch ==
  /\ pc = "launch"
  /\ browser' = "launched"
  /\ calls' = Append(calls, Call("launch", << >>, << >>, "", TRUE))
  /\ pc' = "loop"
  /\ UNCHANGED << sheet, records, i, outFilename, openPages, outFile, frameVars >>
  /\ UNCHANGED basicScrapeVars

(***************************************************************************)
(* main, part D: the loop over the records (lines 133-147).                *)
(***************************************************************************)
\* the test written url === undefined: an empty string passes it
NoUrlUndefinedOnly(rec) == ~HasKey(rec, website)

\* !url of line 135, for url = rec.website: undefined or the empty string
NoUrl(rec) == IF HasKey(rec, website) THEN Get(rec, website) = << >> ELSE TRUE

\* line 136
EmptyArray == << "[", "]" >>

\* the marker without the quotes inside the string
ErrorMarkerBare == << "E", "R", "R", "O", "R" >>

\* line 145
ErrorMarker == << "\"", "E", "R", "R", "O", "R", "\"" >>

\* rec.emails = value, for the record the loop is at
SetEmails(recs, k, value) ==
  [recs EXCEPT ![k] = Put(recs[k], emailsKey, value)]

\* lines 134-138: a record without a URL
LoopBlank ==
  /\ pc = "loop"
  /\ i <= Len(records)
  /\ NoUrl(records[i])
  /\ records' = SetEmails(records, i, EmptyArray)
  /\ i' = i + 1
  /\ calls' = << >>
  /\ UNCHANGED << pc, sheet, outFilename, browser, openPages, outFile, frameVars >>
  /\ UNCHANGED basicScrapeVars

\* lines 134-140: scrapeEmails is called with the record's URL
LoopScrape ==
  /\ pc = "loop"
  /\ i <= Len(records)
  /\ ~NoUrl(records[i])
  /\ pc' = "scrape"
  /\ spc' = "fetch"
  /\ url' = Get(records[i], website)
  /\ calls' = << >>
  /\ UNCHANGED << sheet, records, i, outFilename, browser, openPages, outFile,
                  res, finalUrl, emails, page >>
  /\ UNCHANGED basicScrapeVars

\* the frame of scrapeEmails is gone
FrameGone ==
  /\ spc' = "idle"
  /\ url' = << >>
  /\ res' = NoRes
  /\ finalUrl' = << >>
  /\ emails' = << >>
  /\ page' = "undefined"

\* lines 141-142: scrapeEmails has returned
LoopAssign ==
  /\ pc = "scrape"
  /\ spc = "returned"
  /\ records' = SetEmails(records, i, JSONstringify(emails))
  /\ i' = i + 1
  /\ pc' = "loop"
  /\ FrameGone
  /\ UNCHANGED << sheet, outFilename, browser, openPages, outFile, calls >>
  /\ UNCHANGED basicScrapeVars

\* the loop without its try and catch: what scrapeEmails throws ends main
LoopCatchMissing ==
  /\ pc = "scrape"
  /\ spc = "raised"
  /\ pc' = "crashed"
  /\ FrameGone
  /\ UNCHANGED << sheet, records, i, outFilename, browser, openPages, outFile,
                  calls >>
  /\ UNCHANGED basicScrapeVars

\* lines 143-146: scrapeEmails has thrown
LoopCatch ==
  /\ pc = "scrape"
  /\ spc = "raised"
  /\ records' = SetEmails(records, i, ErrorMarker)
  /\ calls' = Append(calls, Call("console.error", url, << >>, "", TRUE))
  /\ i' = i + 1
  /\ pc' = "loop"
  /\ FrameGone
  /\ UNCHANGED << sheet, outFilename, browser, openPages, outFile >>
  /\ UNCHANGED basicScrapeVars

(***************************************************************************)
(* scrapeEmails (lines 73-103).                                            *)
(***************************************************************************)
\* the static request inside the try block: its failure falls through to the
\* render of the requested URL
StaticFetchInsideTry ==
  /\ pc = "scrape"
  /\ spc = "fetch"
  /\ \/ /\ calls' = Append(calls, Call("fetch", url, << >>, BROWSER_UA, FALSE))
        /\ spc' = "newPage"
        /\ finalUrl' = url
        /\ UNCHANGED res
     \/ \E fin \in {url, RedirectUrl}, status \in {200, 404} :
          /\ calls' = Append(calls, Call("fetch", url, << >>, BROWSER_UA, TRUE))
          /\ res' = [url |-> fin, status |-> status]
          /\ finalUrl' = fin
          /\ spc' = "text"
  /\ UNCHANGED << mainVars, openPages, url, emails, page >>
  /\ UNCHANGED basicScrapeVars

\* lines 74-81: the static request settles.  A response of any status is a
\* success of the request; its url is the URL after the redirects.
StaticFetch ==
  /\ pc = "scrape"
  /\ spc = "fetch"
  /\ \/ /\ calls' = Append(calls, Call("fetch", url, << >>, BROWSER_UA, FALSE))
        /\ spc' = "raised"
        /\ UNCHANGED << res, finalUrl >>
     \/ \E fin \in {url, RedirectUrl}, status \in {200, 404} :
          /\ calls' = Append(calls, Call("fetch", url, << >>, BROWSER_UA, TRUE))
          /\ res' = [url |-> fin, status |-> status]
          /\ finalUrl' = fin
          /\ spc' = "text"
  /\ UNCHANGED << mainVars, openPages, url, emails, page >>
  /\ UNCHANGED basicScrapeVars

\* the test of line 86 gone: the render runs whatever the static body gave
NeedsRenderAlways(list) == TRUE

\* line 86
NeedsRender(list) == Len(list) = 0

\* lines 83-87: the body is read and scraped; emails found are returned
ReadBody ==
  /\ pc = "scrape"
  /\ spc = "text"
  /\ \/ /\ calls' = Append(calls, Call("text", res.url, << >>, "", FALSE))
        /\ spc' = "raised"
        /\ UNCHANGED emails
     \/ \E html \in Docs :
          /\ calls' = Append(calls, Call("text", res.url, html, "", TRUE))
          /\ emails' = basicScrape(html)
          /\ spc' = IF NeedsRender(basicScrape(html)) THEN "newPage"
                    ELSE "returned"
  /\ UNCHANGED << mainVars, openPages, url, res, finalUrl, page >>
  /\ UNCHANGED basicScrapeVars

\* a catch block that reports the error and throws it again
CaughtRethrown(op, u) ==
  /\ calls' = calls \o << Call(op, u, << >>, "", FALSE),
                          Call("console.warn", finalUrl, << >>, "", TRUE) >>
  /\ spc' = "raised"

\* lines 95-96: the catch block
Caught(op, u) ==
  /\ calls' = calls \o << Call(op, u, << >>, "", FALSE),
                          Call("console.warn", finalUrl, << >>, "", TRUE) >>
  /\ spc' = "finally"

\* line 90
NewPage ==
  /\ pc = "scrape"
  /\ spc = "newPage"
  /\ \/ /\ Caught("newPage", << >>)
        /\ UNCHANGED << page, openPages >>
     \/ /\ calls' = Append(calls, Call("newPage", << >>, << >>, "", TRUE))
        /\ page' = "open"
        /\ openPages' = openPages + 1
        /\ spc' = "setUserAgent"
  /\ UNCHANGED << mainVars, url, res, finalUrl, emails >>
  /\ UNCHANGED basicScrapeVars

\* the call of line 91 not awaited: the navigation starts whether or not the
\* user agent was set
SetUserAgentNotAwaited ==
  /\ pc = "scrape"
  /\ spc = "setUserAgent"
  /\ \/ calls' = Append(calls, Call("setUserAgent", << >>, << >>, "", FALSE))
     \/ calls' = Append(calls,
                   Call("setUserAgent", << >>, << >>, BROWSER_UA, TRUE))
  /\ spc' = "goto"
  /\ UNCHANGED << mainVars, openPages, url, res, finalUrl, emails, page >>
  /\ UNCHANGED basicScrapeVars

\* line 91
SetUserAgent ==
  /\ pc = "scrape"
  /\ spc = "setUserAgent"
  /\ \/ Caught("setUserAgent", << >>)
     \/ /\ calls' = Append(calls,
                      Call("setUserAgent", << >>, << >>, BROWSER_UA, TRUE))
        /\ spc' = "goto"
  /\ UNCHANGED << mainVars, openPages, url, res, finalUrl, emails, page >>
  /\ UNCHANGED basicScrapeVars

\* the render navigates to the URL the record gave
GotoRequestedUrl(requested, final) == requested

\* the URL of line 92
GotoUrl(requested, final) == final

\* line 92: the navigation ends, fails, or runs into the 30 s timeout
Goto ==
  /\ pc = "scrape"
  /\ spc = "goto"
  /\ \/ Caught("goto", GotoUrl(url, finalUrl))
     \/ Caught("goto timeout", GotoUrl(url, finalUrl))
     \/ /\ calls' = Append(calls,
                      Call("goto", GotoUrl(url, finalUrl), << >>, "", TRUE))
        /\ spc' = "content"
  /\ UNCHANGED << mainVars, openPages, url, res, finalUrl, emails, page >>
  /\ UNCHANGED basicScrapeVars

\* lines 93-94
Content ==
  /\ pc = "scrape"
  /\ spc = "content"
  /\ \/ /\ Caught("content", << >>)
        /\ UNCHANGED emails
     \/ \E rendered \in Docs :
          /\ calls' = Append(calls, Call("content", << >>, rendered, "", TRUE))
          /\ emails' = basicScrape(rendered)
          /\ spc' = "finally"
  /\ UNCHANGED << mainVars, openPages, url, res, finalUrl, page >>
  /\ UNCHANGED basicScrapeVars

\* the page closed at the end of the try block instead of in a finally block:
\* it is closed only when the content was read
FinallyAfterContentOnly ==
  /\ pc = "scrape"
  /\ spc = "finally"
  /\ IF page # "undefined" /\ calls[Len(calls)].op = "content"
     THEN /\ page' = "closed"
          /\ openPages' = openPages - 1
          /\ calls' = Append(calls, Call("close", << >>, << >>, "", TRUE))
     ELSE UNCHANGED << page, openPages, calls >>
  /\ spc' = "returned"
  /\ UNCHANGED << mainVars, url, res, finalUrl, emails >>
  /\ UNCHANGED basicScrapeVars

\* the function without its finally block: the page is left open
FinallyMissing ==
  /\ pc = "scrape"
  /\ spc = "finally"
  /\ spc' = "returned"
  /\ UNCHANGED << mainVars, openPages, url, res, finalUrl, emails, page, calls >>
  /\ UNCHANGED basicScrapeVars

\* lines 97-102: the finally block closes the page if there is one, and
\* scrapeEmails returns
Finally ==
  /\ pc = "scrape"
  /\ spc = "finally"
  /\ IF page # "undefined"
     THEN /\ page' = "closed"
          /\ openPages' = openPages - 1
          /\ calls' = Append(calls, Call("close", << >>, << >>, "", TRUE))
     ELSE UNCHANGED << page, openPages, calls >>
  /\ spc' = "returned"
  /\ UNCHANGED << mainVars, url, res, finalUrl, emails >>
  /\ UNCHANGED basicScrapeVars

(***************************************************************************)
(* main, part E: after the loop (lines 149-167).                           *)
(***************************************************************************)
\* main without its line 149: the browser is left running
BrowserCloseMissing ==
  /\ pc = "loop"
  /\ i > Len(records)
  /\ calls' = << >>
  /\ pc' = "write"
  /\ UNCHANGED << sheet, records, i, outFilename, browser, openPages, outFile,
                  frameVars >>
  /\ UNCHANGED basicScrapeVars

\* line 149
BrowserClose ==
  /\ pc = "loop"
  /\ i > Len(records)
  /\ browser' = "closed"
  /\ calls' = << Call("browser.close", << >>, << >>, "", TRUE) >>
  /\ pc' = "write"
  /\ UNCHANGED << sheet, records, i, outFilename, openPages, outFile, frameVars >>
  /\ UNCHANGED basicScrapeVars

\* lines 152-167
WriteOutput ==
  /\ pc = "write"
  /\ outFile' = Append(outFile,
                  [name |-> outFilename,
                   content |-> Join(lines(records), << "\n" >>)])
  /\ calls' = Append(calls, Call("writeFileSync", << >>, << >>, "", TRUE))
  /\ pc' = "done"
  /\ UNCHANGED << sheet, records, i, outFilename, browser, openPages, frameVars >>
  /\ UNCHANGED basicScrapeVars

Next ==
  \/ FetchCsv \/ ReadCsv \/ FetchTitle \/ Launch
  \/ LoopBlank \/ LoopScrape \/ LoopAssign \/ LoopCatch
  \/ StaticFetch \/ ReadBody
  \/ NewPage \/ SetUserAgent \/ Goto \/ Content \/ Finally
  \/ BrowserClose \/ WriteOutput

Spec == Init /\ [][Next]_vars

\* every awaited call settles and main runs on
FairSpec == Spec /\ WF_vars(Next)

(***************************************************************************)
(* basicScrape on its own: the run of one call, from any markup of the     *)
(* bounded set Markups, observed between its loops.  The function is       *)
(* synchronous: nothing else runs between these steps, and what they       *)
(* compute is what the operator basicScrape computes (ScrapeAgrees).       *)
(***************************************************************************)
\* <p>A@B.com </p>: text() joins the texts of the elements as they are, and
\* the blank keeps this one apart from the next
ElTextUpper == Elem("p", << >>, << "A","@","B",".","c","o","m"," " >>)

\* <p>a@b.com</p>
ElTextLower == Elem("p", << >>, << "a","@","b",".","c","o","m" >>)

\* <p>x@y.io q@w.gif</p>
ElTextTwo == Elem("p", << >>, << "x","@","y",".","i","o"," ","q","@","w",".","g","i","f" >>)

\* <a href="mailto:a@b.co,lo@ng.com">m</a>: two addresses in one link
ElMailtoPair ==
  Elem("a",
       << [name |-> "href",
           value |-> mailtoPrefix
                     \o << "a","@","b",".","c","o",",","l","o","@","n","g",
                           ".","c","o","m" >>] >>,
       << "m" >>)

\* <a href="mailto:Pic@X.PNG">m</a>
ElMailtoImage ==
  Elem("a",
       << [name |-> "href",
           value |-> mailtoPrefix \o << "P","i","c","@","X",".","P","N","G" >>] >>,
       << "m" >>)

\* <a href="mailto:x%40y.co?s">m</a>: an escaped "@"
ElMailtoEncoded ==
  Elem("a",
       << [name |-> "href",
           value |-> mailtoPrefix \o << "x","%","4","0","y",".","c","o","?","s" >>] >>,
       << "m" >>)

\* <a href="mailto: a%@b.co ">m</a>: an escape that is cut short
ElMailtoMalformed ==
  Elem("a",
       << [name |-> "href",
           value |-> mailtoPrefix \o << " ","a","%","@","b",".","c","o"," " >>] >>,
       << "m" >>)

\* <a href="mailto:nobody">m</a>
ElMailtoNone ==
  Elem("a",
       << [name |-> "href",
           value |-> mailtoPrefix \o << "n","o","b","o","d","y" >>] >>,
       << "m" >>)

\* <img src="p@2x.png" alt="c@d.io">
ElImg ==
  Elem("img",
       << [name |-> "src", value |-> << "p","@","2","x",".","p","n","g" >>],
          [name |-> "alt", value |-> << "c","@","d",".","i","o" >>] >>,
       << >>)

\* <script>z@q.eu</script>
ElScript == Elem("script", << >>, << "z","@","q",".","e","u" >>)

\* <title>t@u.org</title>, in the head
ElTitle ==
  [tag |-> "title", attribs |-> << >>, text |-> << "t","@","u",".","o","r","g" >>,
   inBody |-> FALSE]

Elems ==
  { ElTextUpper, ElTextLower, ElTextTwo, ElMailtoPair, ElMailtoImage,
    ElMailtoEncoded, ElMailtoMalformed, ElMailtoNone, ElImg, ElScript,
    ElTitle }

\* the documents of up to MaxElems elements
Markups == UNION { [1..n -> Elems] : n \in 0..MaxElems }

ScrapeInit ==
  /\ MainInit
  /\ markup \in Markups
  /\ bpc = "mailto"
  /\ rawSet = << >>
  /\ lastIndex = 0
  /\ vals = << >>
  /\ ri = 1
  /\ raw = << >>
  /\ found = Null
  /\ cleanSet = << >>

\* lines 22-36: the markup is loaded and the mailto links are harvested
MailtoStep ==
  /\ bpc = "mailto"
  /\ rawSet' = MailtoLinks(load(markup), rawSet)
  /\ bpc' = "text"
  /\ UNCHANGED << markup, lastIndex, vals, ri, raw, found, cleanSet >>
  /\ UNCHANGED << mainVars, frameVars, openPages, calls >>

\* what the loop did, stored
Scanned(r) ==
  /\ rawSet' = r.rawSet
  /\ lastIndex' = r.lastIndex

\* lines 39-43: the text of the body is scanned; lines 46-47 then visit the
\* attribute values
TextScan ==
  /\ bpc = "text"
  /\ Scanned(ScanLoop(BodyText(load(markup)), lastIndex, rawSet))
  /\ vals' = AttribValues(load(markup))
  /\ bpc' = "attrs"
  /\ UNCHANGED << markup, ri, raw, found, cleanSet >>
  /\ UNCHANGED << mainVars, frameVars, openPages, calls >>

\* lines 47-52: one attribute value is scanned
AttrScan ==
  /\ bpc = "attrs"
  /\ Len(vals) > 0
  /\ Scanned(ScanLoop(vals[1], lastIndex, rawSet))
  /\ vals' = Tail(vals)
  /\ UNCHANGED << markup, bpc, ri, raw, found, cleanSet >>
  /\ UNCHANGED << mainVars, frameVars, openPages, calls >>

\* lines 53-58: every value has been visited
AttrsDone ==
  /\ bpc = "attrs"
  /\ Len(vals) = 0
  /\ bpc' = "sanitize"
  /\ UNCHANGED << markup, rawSet, lastIndex, vals, ri, raw, found, cleanSet >>
  /\ UNCHANGED << mainVars, frameVars, openPages, calls >>

\* lines 60-67: one raw candidate is decoded, matched and kept or dropped
SanitizeStep ==
  /\ bpc = "sanitize"
  /\ ri <= Len(rawSet)
  /\ raw' = TryDecode(rawSet[ri])
  /\ found' = match(TryDecode(rawSet[ri]))
  /\ cleanSet' = KeepFound(cleanSet, match(TryDecode(rawSet[ri])))
  /\ ri' = ri + 1
  /\ UNCHANGED << markup, bpc, rawSet, lastIndex, vals >>
  /\ UNCHANGED << mainVars, frameVars, openPages, calls >>

\* line 69
Return ==
  /\ bpc = "sanitize"
  /\ ri > Len(rawSet)
  /\ bpc' = "returned"
  /\ UNCHANGED << markup, rawSet, lastIndex, vals, ri, raw, found, cleanSet >>
  /\ UNCHANGED << mainVars, frameVars, openPages, calls >>

ScrapeNext ==
  \/ MailtoStep \/ TextScan \/ AttrScan \/ AttrsDone \/ SanitizeStep \/ Return

ScrapeSpec == ScrapeInit /\ [][ScrapeNext]_vars

\* the steps end with what the operator gives
ScrapeAgrees ==
  /\ bpc \in {"attrs", "sanitize", "returned"} /\ Len(vals) = 0 =>
       rawSet = RawCandidates(markup)
  /\ bpc = "returned" => cleanSet = basicScrape(markup)

(***************************************************************************)
(* What the properties speak of.                                           *)
(***************************************************************************)
\* the positions in calls of the calls of operation op
CallsOf(op) == { k \in 1..Len(calls) : calls[k].op = op }

\* calls holds the calls of one iteration of the loop: the running one, or
\* the one that has just ended
InIteration == pc = "scrape" \/ (pc = "loop" /\ i > 1)

\* the record of the iteration that has just ended
LastRecord == records[i - 1]

\* call k is the read of a static body that holds an email
StaticFound(k) ==
  /\ InIteration
  /\ calls[k].op = "text"
  /\ calls[k].ok
  /\ Len(basicScrape(calls[k].body)) > 0

\* call k is the read of a static body that holds no email
StaticEmpty(k) ==
  /\ InIteration
  /\ calls[k].op = "text"
  /\ calls[k].ok
  /\ Len(basicScrape(calls[k].body)) = 0

\* the static request of the iteration has failed
StaticFailure ==
  /\ InIteration
  /\ \E k \in 1..Len(calls) : calls[k].op \in {"fetch", "text"} /\ ~calls[k].ok

RenderOps == {"newPage", "setUserAgent", "goto", "goto timeout", "content"}

\* a step of the render of the iteration has failed
RenderFailure ==
  /\ InIteration
  /\ \E k \in 1..Len(calls) : calls[k].op \in RenderOps /\ ~calls[k].ok

\* the pages opened in the iteration
PagesOpened == { k \in CallsOf("newPage") : calls[k].ok }

(***************************************************************************)
(* C1 (no escalation): when the static body of a URL holds an email,       *)
(* browser.newPage is never called for that URL, no page is open, and what *)
(* scrapeEmails returns, and main stores, is what was extracted from the   *)
(* static body.                                                            *)
(***************************************************************************)
C1_NoEscalation ==
  \A k \in 1..Len(calls) :
    StaticFound(k) =>
      /\ CallsOf("newPage") = {}
      /\ openPages = 0
      /\ pc = "scrape" =>
           /\ spc = "returned"
           /\ emails = basicScrape(calls[k].body)
      /\ pc = "loop" =>
           Get(LastRecord, emailsKey) = JSONstringify(basicScrape(calls[k].body))

C1_Witness ==
  /\ pc = "scrape"
  /\ spc = "returned"
  /\ \E k \in 1..Len(calls) : StaticFound(k)
  /\ Len(emails) = 2

(***************************************************************************)
(* C2 (escalation): when the static body of a URL holds no email,          *)
(* scrapeEmails calls browser.newPage exactly once before it ends, every   *)
(* navigation goes to the URL the static response reports (res.url, the    *)
(* URL after the redirects), and once the rendered content is read the     *)
(* value returned is what was extracted from it, empty or not.             *)
(***************************************************************************)
C2_Escalation ==
  \A k \in 1..Len(calls) :
    StaticEmpty(k) =>
      /\ Cardinality(CallsOf("newPage")) <= 1
      /\ (pc = "loop" \/ spc \notin {"newPage"}) =>
           Cardinality(CallsOf("newPage")) = 1
      /\ \A g \in CallsOf("goto") \cup CallsOf("goto timeout") :
           calls[g].url = calls[k].url
      /\ \A c \in CallsOf("content") :
           calls[c].ok =>
             /\ CallsOf("goto") # {}
             /\ pc = "scrape" =>
                  /\ spc \in {"finally", "returned"}
                  /\ emails = basicScrape(calls[c].body)
             /\ pc = "loop" =>
                  Get(LastRecord, emailsKey)
                    = JSONstringify(basicScrape(calls[c].body))

\* a redirected URL whose static body is empty has been rendered, and the
\* rendered body held an email
C2_Witness ==
  /\ pc = "scrape"
  /\ spc = "returned"
  /\ finalUrl # url
  /\ \E k \in 1..Len(calls) : StaticEmpty(k)
  /\ \E g \in CallsOf("goto") : calls[g].ok /\ calls[g].url = RedirectUrl
  /\ \E c \in CallsOf("content") : calls[c].ok
  /\ Len(emails) > 0

(***************************************************************************)
(* C3: when the static request of a URL fails (the fetch or the read of    *)
(* the body), scrapeEmails throws to its caller, which reports the         *)
(* failure, and browser.newPage is not called for that URL.                *)
(***************************************************************************)
C3_StaticFailureSurfaces ==
  StaticFailure =>
    /\ CallsOf("newPage") = {}
    /\ openPages = 0
    /\ pc = "scrape" => spc = "raised"
    /\ pc = "loop" => calls[Len(calls)].op = "console.error"

C3_Witness ==
  /\ pc = "loop"
  /\ StaticFailure
  /\ \E k \in CallsOf("text") : ~calls[k].ok

RECURSIVE JsonStringsFrom(_, _)
RECURSIVE JsonStringBody(_, _)
\* from position p of v: a string, then the end or a comma and more strings
JsonStringsFrom(v, p) ==
  IF p > Len(v) \/ v[p] # "\"" THEN FALSE ELSE JsonStringBody(v, p + 1)

\* inside a string at position p of v
JsonStringBody(v, p) ==
  IF p > Len(v) THEN FALSE
  ELSE IF v[p] = "\\" THEN JsonStringBody(v, p + 2)
  ELSE IF v[p] # "\"" THEN JsonStringBody(v, p + 1)
  ELSE IF p = Len(v) THEN TRUE
  ELSE v[p + 1] = "," /\ JsonStringsFrom(v, p + 2)

\* v is the text of a JSON array of strings
IsJsonStringArray(v) ==
  /\ Len(v) >= 2
  /\ v[1] = "["
  /\ v[Len(v)] = "]"
  /\ Len(v) > 2 => JsonStringsFrom(SubSeq(v, 2, Len(v) - 1), 1)

\* the number of double quotes of text at the positions from..to
QuotesIn(text, from, to) == Cardinality({ q \in from..to : text[q] = "\"" })

\* the position of the quote that closes the cell the quote at p opens: the
\* first quote after p that is not half of a doubled one (-1 when none is)
ClosingQuote(text, p) ==
  MinOf({ q \in (p + 1)..Len(text) :
            /\ text[q] = "\""
            /\ QuotesIn(text, p + 1, q) % 2 = 1
            /\ q = Len(text) \/ text[q + 1] # "\"" })

\* the position of the first comma or line end of text from p on, or
\* Len(text) + 1
DelimiterFrom(text, p) ==
  MinOf({ q \in p..Len(text) : text[q] \in {",", "\n"} } \cup {Len(text) + 1})

RECURSIVE UndoubleQuotes(_)
\* a doubled quote stands for one quote
UndoubleQuotes(str) ==
  IF Len(str) = 0 THEN << >>
  ELSE IF Len(str) >= 2 /\ str[1] = "\"" /\ str[2] = "\""
  THEN << "\"" >> \o UndoubleQuotes(SubSeq(str, 3, Len(str)))
  ELSE << str[1] >> \o UndoubleQuotes(Tail(str))

\* the cell that starts at position p of text and is closed by the quote at
\* position q (q < 1: it is not in quotes): its value, and where its
\* delimiter is
CsvCell(text, p, q) ==
  IF q < 1
  THEN [value |-> SubSeq(text, p, DelimiterFrom(text, p) - 1),
        delimiter |-> DelimiterFrom(text, p)]
  ELSE [value |-> UndoubleQuotes(SubSeq(text, p + 1, q - 1)),
        delimiter |-> DelimiterFrom(text, q + 1)]

\* whether the cell at position p of text is in double quotes
OpensQuote(text, p) == p <= Len(text) /\ text[p] = "\""

RECURSIVE CsvParse(_, _, _, _)
\* rows are the rows read, cells the cells read of the current row, cell the
\* cell just read from text
CsvNext(text, rows, cells, cell) ==
  IF cell.delimiter > Len(text)
  THEN Append(rows, Append(cells, cell.value))
  ELSE IF text[cell.delimiter] = ","
  THEN CsvParse(text, cell.delimiter + 1, rows, Append(cells, cell.value))
  ELSE CsvParse(text, cell.delimiter + 1,
                Append(rows, Append(cells, cell.value)), << >>)

\* the rows of text from the cell that starts at position p on
CsvParse(text, p, rows, cells) ==
  CsvNext(text, rows, cells,
          CsvCell(text, p,
                  IF OpensQuote(text, p) THEN ClosingQuote(text, p) ELSE 0))

\* the rows of a CSV text, each the sequence of its unescaped cells
CsvRows(text) == CsvParse(text, 1, << >>, << >>)

\* the table of the file the run wrote
OutRows == CsvRows(outFile[1].content)

\* the header row of the sheet, in column order
SheetHeaders == [ k \in 1..Len(sheet[1]) |-> sheet[1][k].key ]

(***************************************************************************)
(* C6 (failure isolation): under FairSpec, from a non-empty table the run  *)
(* goes on, whatever the outcomes of the URLs, until every record has been *)
(* processed and has an emails value and the output file is written; no    *)
(* outcome of a URL ends main.                                             *)
(***************************************************************************)
C6_BatchCompletes ==
  /\ [](pc = "crashed" => Len(records) = 0)
  /\ (pc = "title") ~>
       (/\ pc = "done"
        /\ i = Len(records) + 1
        /\ \A k \in 1..Len(records) : HasKey(records[k], emailsKey)
        /\ Len(outFile) = 1)

\* the first URL failed outright and the second record was still scraped
C6_Witness ==
  /\ pc = "done"
  /\ Len(records) >= 2
  /\ Get(records[1], emailsKey) = << "\"", "E", "R", "R", "O", "R", "\"" >>
  /\ Len(Get(records[2], emailsKey)) > 2
  /\ Len(outFile) = 1

(***************************************************************************)
(* C7 as stated: after the loop every emails value is a JSON array of      *)
(* strings or the five characters ERROR with no quotes around them, and    *)
(* every emails cell of the output table reads so once unescaped.          *)
(***************************************************************************)
C7_BareErrorMarker ==
  pc = "done" =>
    /\ \A k \in 1..Len(records) :
         \/ IsJsonStringArray(Get(records[k], emailsKey))
         \/ Get(records[k], emailsKey) = << "E", "R", "R", "O", "R" >>
    /\ \A r \in 2..Len(OutRows) :
         \/ IsJsonStringArray(OutRows[r][Len(OutRows[r])])
         \/ OutRows[r][Len(OutRows[r])] = << "E", "R", "R", "O", "R" >>

(***************************************************************************)
(* C7 as amended: the emails value of every processed record is a JSON     *)
(* array of strings or the seven characters "ERROR", the word in double    *)
(* quotes; it is "ERROR" exactly when the record's call of scrapeEmails    *)
(* threw; and every cell of the output table under a header emails, once   *)
(* unescaped, is the emails value of its record, quotes included.          *)
(***************************************************************************)
C7_QuotedErrorMarker ==
  /\ \A k \in 1..Len(records) :
       (k < i /\ pc \in {"loop", "scrape", "write", "done"}) =>
         \/ IsJsonStringArray(Get(records[k], emailsKey))
         \/ Get(records[k], emailsKey)
              = << "\"", "E", "R", "R", "O", "R", "\"" >>
  /\ (pc = "loop" /\ i > 1) =>
       (Get(LastRecord, emailsKey) = << "\"", "E", "R", "R", "O", "R", "\"" >>
          <=> StaticFailure)
  /\ pc = "done" =>
       /\ Len(OutRows) = Len(records) + 1
       /\ \A r \in 2..Len(OutRows) :
            \A c \in 1..Len(OutRows[r]) :
              OutRows[1][c] = emailsKey =>
                OutRows[r][c] = Get(records[r - 1], emailsKey)

\* a written table with a record that failed outright and one with emails
C7_Witness ==
  /\ pc = "done"
  /\ \E k \in 1..Len(records) :
       Get(records[k], emailsKey) = << "\"", "E", "R", "R", "O", "R", "\"" >>
  /\ \E r \in 2..Len(OutRows) :
       OutRows[r][Len(OutRows[r])] = << "\"", "E", "R", "R", "O", "R", "\"" >>
  /\ \E k \in 1..Len(records) : Len(Get(records[k], emailsKey)) > 2

(***************************************************************************)
(* C8 as stated: for a sheet with no column named emails, the header row   *)
(* of the output table is the sheet's header row followed by emails once,  *)
(* and the header row and every data row have one cell more than the sheet *)
(* has columns.                                                            *)
(***************************************************************************)
C8_EmailsHeaderOnce ==
  (pc = "done" /\ ~HasKey(sheet[1], emailsKey)) =>
    /\ OutRows[1] = SheetHeaders \o << emailsKey >>
    /\ \A r \in 1..Len(OutRows) : Len(OutRows[r]) = Len(SheetHeaders) + 1

(***************************************************************************)
(* C9: a record whose website value is the empty string, or that has no    *)
(* website value, gets the emails value [] and scrapeEmails is not called  *)
(* for it: its iteration makes no call on the network or the browser.      *)
(***************************************************************************)
BlankWebsite(rec) ==
  IF HasKey(rec, website) THEN Len(Get(rec, website)) = 0 ELSE TRUE

C9_BlankNotFetched ==
  /\ (pc = "loop" /\ i > 1 /\ BlankWebsite(sheet[i - 1])) =>
       /\ calls = << >>
       /\ openPages = 0
       /\ Get(LastRecord, emailsKey) = << "[", "]" >>
  /\ pc = "scrape" => ~BlankWebsite(sheet[i])

\* a record with a website column whose cell is empty has been processed
C9_Witness ==
  /\ pc = "loop"
  /\ i > 1
  /\ HasKey(sheet[i - 1], website)
  /\ BlankWebsite(sheet[i - 1])
  /\ Get(LastRecord, emailsKey) = << "[", "]" >>

(***************************************************************************)
(* C10: when the table yields no record, main reports an error and ends:   *)
(* nothing follows, no file is written, the browser is not launched, and   *)
(* the only requests made are those for the table.                         *)
(***************************************************************************)
C10_NoRecordsNoOutput ==
  (pc \notin {"fetchCsv", "readCsv", "crashed"} /\ Len(records) = 0) =>
    /\ pc = "noData"
    /\ CallsOf("console.error") # {}
    /\ outFile = << >>
    /\ browser = "none"
    /\ openPages = 0
    /\ CallsOf("launch") = {}
    /\ \A k \in CallsOf("fetch") : calls[k].url = CSV_URL
    /\ ~ENABLED Next

C10_Witness ==
  /\ pc = "noData"
  /\ Len(sheet) = 0
  /\ CallsOf("console.error") # {}

(***************************************************************************)
(* C11 as stated (end to end, two rows): once the first row holds the JSON *)
(* array with the address of the mailto link, a second URL whose request   *)
(* fails at the network, or is answered with status 404, leaves the second *)
(* row with the error marker (with or without the quotes of line 145).     *)
(***************************************************************************)
C11_FailureMarksError ==
  [][ (/\ pc = "scrape"
       /\ pc' = "loop"
       /\ Len(records) = 2
       /\ i = 2
       /\ Get(records[1], emailsKey) = JSONstringify(basicScrape(DocMailto))
       /\ (spc = "raised" \/ res.status = 404))
      => Get(records'[2], emailsKey)
           \in { << "\"", "E", "R", "R", "O", "R", "\"" >>,
                 << "E", "R", "R", "O", "R" >> } ]_vars

(***************************************************************************)
(* C12 as stated (pass-through and order): at every moment a record        *)
(* differs from the record the parser returned in its emails field at      *)
(* most, and only once the loop has come to it; and in the written table   *)
(* data row k is the row of input record k: under the name of each input   *)
(* column stands, once unescaped, the value the sheet had in that column.  *)
(***************************************************************************)
C12_PassThrough ==
  /\ Len(records) = Len(sheet)
  /\ \A k \in 1..Len(sheet) :
       /\ \A c \in 1..Len(sheet[k]) :
            sheet[k][c].key # emailsKey =>
              /\ HasKey(records[k], sheet[k][c].key)
              /\ Get(records[k], sheet[k][c].key) = sheet[k][c].value
       /\ k > i => records[k] = sheet[k]
  /\ pc = "done" =>
       /\ Len(OutRows) = Len(sheet) + 1
       /\ \A k \in 1..Len(sheet) :
            \A c \in 1..Len(sheet[k]) :
              \E j \in 1..Len(OutRows[1]) :
                /\ OutRows[1][j] = sheet[k][c].key
                /\ j <= Len(OutRows[k + 1])
                /\ OutRows[k + 1][j] = sheet[k][c].value

(***************************************************************************)
(* C13: every request carries the one user agent BROWSER_UA: the fetch of  *)
(* the table, the fetch of the sheet page, every static fetch of a record  *)
(* URL; and every navigation of a page, ended or failed, comes after a     *)
(* successful setUserAgent(BROWSER_UA) on the page opened for that URL, so *)
(* no page navigates with the browser's own user agent.                    *)
(***************************************************************************)
C13_SameUserAgent ==
  /\ \A k \in CallsOf("fetch") : calls[k].ua = BROWSER_UA
  /\ \A k \in CallsOf("setUserAgent") : calls[k].ok => calls[k].ua = BROWSER_UA
  /\ \A g \in CallsOf("goto") \cup CallsOf("goto timeout") :
       \E n \in CallsOf("newPage") :
         \E u \in CallsOf("setUserAgent") :
           /\ n < u
           /\ u < g
           /\ calls[n].ok
           /\ calls[u].ok
           /\ calls[u].ua = BROWSER_UA
  /\ (pc = "scrape" /\ spc \in {"goto", "content"}) =>
       \E u \in CallsOf("setUserAgent") : calls[u].ok
  /\ \A k \in 1..Len(calls) :
       calls[k].ua # "" => calls[k].op \in {"fetch", "setUserAgent"}

\* a page has navigated after the static fetch of its URL
C13_Witness ==
  /\ pc = "scrape"
  /\ spc = "content"
  /\ \E f \in CallsOf("fetch") :
       \E g \in CallsOf("goto") : f < g /\ calls[g].ok

(***************************************************************************)
(* C14 (case-insensitive dedup): at every moment of a run of basicScrape,  *)
(* and so in the list it returns, cleanSet holds no upper-case letter and  *)
(* no string twice; when the raw candidates hold both A@B.com and a@b.com, *)
(* the list returned holds a@b.com once and A@B.com not at all.            *)
(***************************************************************************)
C14_LowerCaseNoDuplicate ==
  /\ \A k \in 1..Len(cleanSet) :
       /\ \A c \in 1..Len(cleanSet[k]) : cleanSet[k][c] \notin Range(UpperSeq)
       /\ \A j \in 1..Len(cleanSet) : j # k => cleanSet[j] # cleanSet[k]
  /\ (/\ bpc = "returned"
      /\ << "A","@","B",".","c","o","m" >> \in Range(rawSet)
      /\ << "a","@","b",".","c","o","m" >> \in Range(rawSet)) =>
       /\ Cardinality({ k \in 1..Len(cleanSet) :
                          cleanSet[k] = << "a","@","b",".","c","o","m" >> }) = 1
       /\ << "A","@","B",".","c","o","m" >> \notin Range(cleanSet)

\* the two spellings were candidates, upper case first, and one entry is
\* returned
C14_Witness ==
  /\ bpc = "returned"
  /\ rawSet = << << "A","@","B",".","c","o","m" >>,
                 << "a","@","b",".","c","o","m" >> >>
  /\ cleanSet = << << "a","@","b",".","c","o","m" >> >>

\* the part of str after its last dot (all of str when it has none)
AfterFinalDot(str) ==
  SubSeq(str,
         Len(str) + 1
           - (CHOOSE n \in 0..Len(str) :
                /\ \A k \in (Len(str) - n + 1)..Len(str) : str[k] # "."
                /\ n = Len(str) \/ str[Len(str) - n] = "."),
         Len(str))

(***************************************************************************)
(* C15 (image-extension filter): at every moment of a run of basicScrape,  *)
(* and so in the list it returns, no string of cleanSet has png, jpg,      *)
(* jpeg, gif, svg, webp, bmp or tiff after its last dot, in any letter     *)
(* case, whether its candidate came from a mailto link, the text or an     *)
(* attribute value.                                                        *)
(***************************************************************************)
C15_NoImageExtension ==
  \A k \in 1..Len(cleanSet) :
    toLowerCase(AfterFinalDot(cleanSet[k]))
      \notin { <<"p","n","g">>, <<"j","p","g">>, <<"j","p","e","g">>,
               <<"g","i","f">>, <<"s","v","g">>, <<"w","e","b","p">>,
               <<"b","m","p">>, <<"t","i","f","f">> }

\* an image name in upper case from a mailto link and one from an attribute
\* value were candidates and neither is returned; the address beside them is
C15_Witness ==
  /\ bpc = "returned"
  /\ << "P","i","c","@","X",".","P","N","G" >> \in Range(rawSet)
  /\ << "p","@","2","x",".","p","n","g" >> \in Range(rawSet)
  /\ cleanSet = << << "c","@","d",".","i","o" >> >>

\* the CSV text in which every cell of rows stands in double quotes, the
\* quotes inside it doubled
AllQuoted(rows) ==
  Join([ r \in 1..Len(rows) |->
           Join([ c \in 1..Len(rows[r]) |->
                    << "\"" >> \o DoubleQuotes(rows[r][c]) \o << "\"" >> ],
                << "," >>) ],
       << "\n" >>)

(***************************************************************************)
(* C16 as stated: every cell of the written table, those of the header row *)
(* as well as those of the data rows, stands in double quotes with the     *)
(* double quotes inside it doubled: the file is its own cells written so.  *)
(***************************************************************************)
C16_EveryCellQuoted ==
  pc = "done" => outFile[1].content = AllQuoted(OutRows)

C18_BrowserLifecycle ==
  /\ [](/\ browser = "none" <=>
             pc \in {"fetchCsv", "readCsv", "title", "launch", "noData", "crashed"}
        /\ browser = "launched" <=> pc \in {"loop", "scrape"}
        /\ browser = "closed" <=> pc \in {"write", "done"}
        /\ browser = "none" => (i = 1 /\ records = sheet)
        /\ browser = "closed" =>
             /\ i = Len(records) + 1
             /\ \A k \in 1..Len(records) : HasKey(records[k], emailsKey)
        /\ outFile # << >> => browser = "closed"
        /\ (openPages > 0 \/ spc \notin {"idle"}) => browser = "launched")
  /\ [][browser' # browser =>
          \/ /\ browser = "none"
             /\ browser' = "launched"
             /\ Len(records) > 0
             /\ i = 1
             /\ records = sheet
          \/ /\ browser = "launched"
             /\ browser' = "closed"
             /\ i = Len(records) + 1
             /\ openPages = 0
             /\ outFile = << >>]_vars
  /\ (pc = "title") ~> (pc = "done" /\ browser = "closed")

\* the run is over, the browser closed, after a URL that failed outright and
\* one whose render was tried
C18_Witness ==
  /\ pc = "done"
  /\ browser = "closed"
  /\ openPages = 0
  /\ \E k \in 1..Len(records) :
       Get(records[k], emailsKey) = << "\"", "E", "R", "R", "O", "R", "\"" >>
  /\ \E k \in 1..Len(records) : Get(records[k], emailsKey) = << "[", "]" >>

\* The pattern of lines 26 and 57, read as a grammar: the characters of str
\* from index s up to index e (exclusive) are a local part, "@", a domain,
\* a dot and two letters or more, with a word boundary at either end
Shaped(str, s, e) ==
  /\ 0 <= s
  /\ e <= Len(str)
  /\ WordBoundary(str, s)
  /\ WordBoundary(str, e)
  /\ \E q \in (s + 1)..(e - 4) :
       /\ \A x \in (s + 1)..q : str[x] \in LocalCh
       /\ str[q + 1] = "@"
       /\ \E k \in (q + 2)..(e - 3) :
            /\ \A x \in (q + 2)..k : str[x] \in DomainCh
            /\ str[k + 1] = "."
            /\ \A x \in (k + 2)..e : str[x] \in Letter

\* the places (start, end) of the email-shaped substrings of str
ShapedIn(str) ==
  { se \in (0..Len(str)) \X (0..Len(str)) : Shaped(str, se[1], se[2]) }

\* the loop of line 60 has just dealt with a candidate: raw is the candidate
\* decoded and found what line 62 gave for it
Sanitized == bpc \in {"sanitize", "returned"} /\ ri > 1

\* lines 63-66 have kept or dropped the match
KeptOrImage ==
  found.isNull
    \/ toLowerCase(found.match) \in Range(cleanSet)
    \/ AfterFinalDot(toLowerCase(found.match)) \in imageExts

(***************************************************************************)
(* C19 as stated: of every raw candidate, once decoded, the longest        *)
(* email-shaped substring is the one matched and kept (lower-cased, unless *)
(* it is an image name); a candidate with no such substring is dropped.    *)
(***************************************************************************)
C19_LongestKept ==
  Sanitized =>
    /\ found.isNull <=> ShapedIn(raw) = {}
    /\ ~found.isNull =>
         /\ \E se \in ShapedIn(raw) : found.match = SubSeq(raw, se[1] + 1, se[2])
         /\ \A se \in ShapedIn(raw) : se[2] - se[1] <= Len(found.match)
    /\ KeptOrImage

(***************************************************************************)
(* C19 as amended: of every raw candidate, once decoded, the email-shaped  *)
(* substring that starts first is the one matched and kept, and of those   *)
(* that start there the longest; a later one is not kept in its place,     *)
(* longer or not; a candidate with no such substring is dropped.           *)
(***************************************************************************)
C19_LeftmostKept ==
  Sanitized =>
    /\ found.isNull <=> ShapedIn(raw) = {}
    /\ ~found.isNull =>
         \E se \in ShapedIn(raw) :
           /\ found.match = SubSeq(raw, se[1] + 1, se[2])
           /\ \A other \in ShapedIn(raw) :
                /\ se[1] <= other[1]
                /\ other[1] = se[1] => other[2] <= se[2]
    /\ KeptOrImage

\* the candidate a@b.co,lo@ng.com of a mailto link has been dealt with: the
\* shorter address, which comes first, is the match
C19_Witness ==
  /\ Sanitized
  /\ raw = << "a","@","b",".","c","o",",","l","o","@","n","g",".","c","o","m" >>
  /\ found.match = << "a","@","b",".","c","o" >>
  /\ << "a","@","b",".","c","o" >> \in Range(cleanSet)

RECURSIVE MatchesFrom(_, _)
\* the matches of the pattern in str from index from on, each search
\* starting where the match before it ended
MatchesFrom(str, from) ==
  IF from > Len(str) \/ FirstMatch(str, from) = -1 THEN {}
  ELSE { SubSeq(str, FirstMatch(str, from) + 1,
                MatchEnd(str, FirstMatch(str, from))) }
       \cup MatchesFrom(str, MatchEnd(str, FirstMatch(str, from)))

\* the attribute values lines 46-52 have scanned so far
ValuesScanned ==
  SubSeq(AttribValues(load(markup)), 1,
         Len(AttribValues(load(markup))) - Len(vals))

(***************************************************************************)
(* C20: looseRe.lastIndex is 0 when the scan of the body text starts and   *)
(* when the scan of each attribute value starts, as it is whenever a scan  *)
(* has ended; so every scan starts at the first character of its string,   *)
(* and every match of the text and of each value scanned, counted from its *)
(* first character, is among the raw candidates.                           *)
(***************************************************************************)
C20_ScanFromStart ==
  /\ bpc \in {"text", "attrs", "sanitize", "returned"} => lastIndex = 0
  /\ bpc \in {"attrs", "sanitize", "returned"} =>
       /\ MatchesFrom(BodyText(load(markup)), 0) \subseteq Range(rawSet)
       /\ \A k \in 1..Len(ValuesScanned) :
            MatchesFrom(ValuesScanned[k], 0) \subseteq Range(rawSet)

\* the value p@2x.png has been scanned to its end and the shorter value
\* c@d.io, the next to be scanned, will be scanned from its first character
C20_Witness ==
  /\ bpc = "attrs"
  /\ lastIndex = 0
  /\ ValuesScanned = << << "p","@","2","x",".","p","n","g" >> >>
  /\ vals = << << "c","@","d",".","i","o" >> >>
  /\ << "p","@","2","x",".","p","n","g" >> \in Range(rawSet)

====
